---------------------------- MODULE Spec2Model ----------------------------
(***************************************************************************)
(* A model of the templated key/value file store of pySteve.py:            *)
(* infer_datatype, save_dict_as_envfile, load_envfile_to_dict,             *)
(* parse_placeholders and parse_filename_iterators.                        *)
(*                                                                         *)
(* Text is modelled as a sequence of one-character strings, so that the    *)
(* slicing, searching and splitting the code does is computed, not         *)
(* assumed.  Positions are 0-based as in Python.                           *)
(***************************************************************************)
EXTENDS Integers, Sequences, FiniteSets, TLC

VARIABLES fs, dirs, call, input, w

vars == <<fs, dirs, call, input, w>>

(***************************************************************************)
(* Python string primitives                                                *)
(***************************************************************************)
NL == "\n"

Digits == {"0", "1", "2", "3", "4", "5", "6", "7", "8", "9"}

\* A character for which str.isnumeric() is true although it is no decimal
\* digit (the vulgar fraction one half); int() and float() reject it.
Half == "U+00BD"

Letters == {"a", "b", "c", "d", "e", "f", "g", "h", "i", "j", "k", "l", "m",
            "n", "o", "p", "q", "r", "s", "t", "u", "v", "w", "x", "y", "z",
            "A", "B", "C", "D", "E", "F", "G", "H", "I", "J", "K", "L", "M",
            "N", "O", "P", "Q", "R", "S", "T", "U", "V", "W", "X", "Y", "Z"}

Whitespace == {" ", NL, "\t"}

Min(a, b) == IF a < b THEN a ELSE b

Max(a, b) == IF a < b THEN b ELSE a

\* s[a:b] with Python's treatment of negative and out-of-range indices.
Clamp(i, n) == IF i < 0 THEN Max(n + i, 0) ELSE Min(i, n)

Slice(s, a, b) ==
    LET lo == Clamp(a, Len(s))
        hi == Clamp(b, Len(s))
    IN  IF lo >= hi THEN << >> ELSE SubSeq(s, lo + 1, hi)

\* s[a:]
SliceFrom(s, a) == Slice(s, a, Len(s))

\* s[:b]
SliceTo(s, b) == Slice(s, 0, b)

StartsWith(s, pre) ==
    /\ Len(pre) <= Len(s)
    /\ SubSeq(s, 1, Len(pre)) = pre

EndsWith(s, suf) ==
    /\ Len(suf) <= Len(s)
    /\ SubSeq(s, Len(s) - Len(suf) + 1, Len(s)) = suf

\* sub occurs in s at 0-based position p
OccursAt(s, sub, p) ==
    /\ p >= 0
    /\ p + Len(sub) <= Len(s)
    /\ SubSeq(s, p + 1, p + Len(sub)) = sub

\* s.find(sub, start): the lowest position >= start, or -1
Find(s, sub, start) ==
    LET hits == {p \in start..Len(s) : OccursAt(s, sub, p)}
    IN  IF hits = {} THEN -1
        ELSE CHOOSE p \in hits : \A q \in hits : p <= q

\* s.rfind(sub)
RFind(s, sub) ==
    LET hits == {p \in 0..Len(s) : OccursAt(s, sub, p)}
    IN  IF hits = {} THEN -1
        ELSE CHOOSE p \in hits : \A q \in hits : q <= p

Contains(s, sub) == Find(s, sub, 0) # -1

\* s.isnumeric()
IsNumeric(s) ==
    /\ Len(s) > 0
    /\ \A i \in 1..Len(s) : s[i] \in Digits \cup {Half}

\* s.isalnum() for one character
IsAlnum(c) == c \in Digits \cup Letters \cup {Half}

RECURSIVE Concat(_)
\* ''.join(parts)
Concat(parts) ==
    IF parts = << >> THEN << >>
    ELSE Head(parts) \o Concat(Tail(parts))

RECURSIVE Join(_, _)
\* sep.join(parts)
Join(parts, sep) ==
    IF parts = << >> THEN << >>
    ELSE IF Len(parts) = 1 THEN parts[1]
    ELSE parts[1] \o sep \o Join(Tail(parts), sep)

RECURSIVE Split(_, _)
\* s.split(sep) for a non-empty separator: always at least one piece
Split(s, sep) ==
    LET p == Find(s, sep, 0)
    IN  IF p = -1 THEN <<s>>
        ELSE <<SliceTo(s, p)>> \o Split(SliceFrom(s, p + Len(sep)), sep)

RECURSIVE Replace(_, _, _)
\* s.replace(old, new) for a non-empty old
Replace(s, old, new) ==
    LET p == Find(s, old, 0)
    IN  IF p = -1 THEN s
        ELSE SliceTo(s, p) \o new \o Replace(SliceFrom(s, p + Len(old)), old, new)

RECURSIVE LStrip(_)
LStrip(s) ==
    IF s # << >> /\ Head(s) \in Whitespace THEN LStrip(Tail(s)) ELSE s

RECURSIVE RStrip(_)
\* s.rstrip()
RStrip(s) ==
    IF s # << >> /\ s[Len(s)] \in Whitespace
    THEN RStrip(SubSeq(s, 1, Len(s) - 1)) ELSE s

\* s.strip()
Strip(s) == RStrip(LStrip(s))

DigitVal(c) ==
    CASE c = "0" -> 0 [] c = "1" -> 1 [] c = "2" -> 2 [] c = "3" -> 3
      [] c = "4" -> 4 [] c = "5" -> 5 [] c = "6" -> 6 [] c = "7" -> 7
      [] c = "8" -> 8 [] c = "9" -> 9

DigitChar(d) ==
    CASE d = 0 -> "0" [] d = 1 -> "1" [] d = 2 -> "2" [] d = 3 -> "3"
      [] d = 4 -> "4" [] d = 5 -> "5" [] d = 6 -> "6" [] d = 7 -> "7"
      [] d = 8 -> "8" [] d = 9 -> "9"

RECURSIVE DigitsToNat(_)
DigitsToNat(s) ==
    IF s = << >> THEN 0
    ELSE 10 * DigitsToNat(SubSeq(s, 1, Len(s) - 1)) + DigitVal(s[Len(s)])

RECURSIVE NatToDigits(_)
\* str(n) for n >= 0
NatToDigits(n) ==
    IF n < 10 THEN <<DigitChar(n)>>
    ELSE NatToDigits(n \div 10) \o <<DigitChar(n % 10)>>

\* All texts over an alphabet up to a length
TextsUpTo(alphabet, n) == UNION {[1..k -> alphabet] : k \in 0..n}

(***************************************************************************)
(* Typed values: int, float, str and list.  A float is the decimal         *)
(* m * 10^-e with no trailing zero in its fraction, which is exact for     *)
(* the short decimals the model writes and reads.                          *)
(***************************************************************************)
IntV(i) == [type |-> "int", i |-> i]

RECURSIVE NormFloat(_, _)
NormFloat(m, e) ==
    IF e > 0 /\ m % 10 = 0 THEN NormFloat(m \div 10, e - 1)
    ELSE [type |-> "float", m |-> m, e |-> e]

FloatV(m, e) == NormFloat(m, e)

StrV(s) == [type |-> "str", s |-> s]

ListV(items) == [type |-> "list", items |-> items]

BoolV(b) == [type |-> "bool", b |-> b]

\* The outcome of a call that raised
Raise(exc) == [type |-> exc]

Exceptions == {"ValueError", "KeyError", "IndexError", "FileNotFoundError",
               "IsADirectoryError", "NotADirectoryError", "FileExistsError",
               "Hang"}

Raised(r) == r.type \in Exceptions

(***************************************************************************)
(* infer_datatype                                                          *)
(***************************************************************************)
\* int(value) for a text str.isnumeric() accepts
PyInt(value) ==
    IF \E i \in 1..Len(value) : value[i] = Half THEN Raise("ValueError")
    ELSE IntV(DigitsToNat(value))

\* float(value) for a text that is numeric once its dots are removed
PyFloat(value) ==
    LET dot    == Find(value, <<".">>, 0)
        digits == Replace(value, <<".">>, << >>)
    IN  IF \/ \E i \in 1..Len(value) : value[i] = Half
           \/ Len(value) - Len(digits) > 1
        THEN Raise("ValueError")
        ELSE FloatV(DigitsToNat(digits), Len(value) - dot - 1)

RECURSIVE infer_datatype(_)
RECURSIVE InferItems(_)
\* value[i] = infer_datatype(value[i])[1] for every element, in order
InferItems(items) ==
    IF items = << >> THEN ListV(<< >>)
    ELSE LET first == infer_datatype(Strip(Head(items)))
         IN  IF Raised(first) THEN first
             ELSE LET rest == InferItems(Tail(items))
                  IN  IF Raised(rest) THEN rest
                      ELSE ListV(<<first>> \o rest.items)

infer_datatype(value) ==
    IF IsNumeric(Replace(value, <<".">>, << >>))
    THEN IF Contains(value, <<".">>) THEN PyFloat(value) ELSE PyInt(value)
    ELSE IF StartsWith(value, <<"[">>) /\ EndsWith(value, <<"]">>)
    THEN InferItems(Split(Slice(value, 1, -1), <<",">>))
    ELSE IF \/ StartsWith(value, <<"\"">>) /\ EndsWith(value, <<"\"">>)
            \/ StartsWith(value, <<"'">>) /\ EndsWith(value, <<"'">>)
    THEN StrV(Slice(value, 1, -1))
    ELSE StrV(value)

(***************************************************************************)
(* Specification of infer_datatype alone: Init draws the text, the action  *)
(* applies the function.                                                   *)
(***************************************************************************)
MaxInferLen == 4

InferAlphabet == {"1", "0", ".", "[", "]", ",", "'", "a", Half}

NoCall == [op |-> "none"]

\* A file system holding no file
NoFiles == [p \in {} |-> << >>]

NoWriters == << >>

InitInfer ==
    /\ fs = NoFiles
    /\ dirs = {}
    /\ call = NoCall
    /\ w = NoWriters
    /\ input \in TextsUpTo(InferAlphabet, MaxInferLen)

CallInfer ==
    /\ call = NoCall
    /\ call' = [op |-> "infer_datatype", value |-> input,
                out |-> infer_datatype(input)]
    /\ UNCHANGED <<fs, dirs, input, w>>

NextInfer == CallInfer

SpecInfer == InitInfer /\ [][NextInfer]_vars


\* C10: infer_datatype is total: it returns a (type, value) pair for every text
\* and never raises, and a text that is no well-formed integer, float, list or
\* quoted string (digits with more than one '.', for one) comes back as a String
\* holding the text unchanged.
C10_InferTotal ==
    call.op = "infer_datatype" =>
        /\ ~Raised(call.out)
        /\ ( /\ IsNumeric(Replace(call.value, <<".">>, << >>))
             /\ Len(call.value) - Len(Replace(call.value, <<".">>, << >>)) > 1
             => call.out = StrV(call.value) )

(***************************************************************************)
(* parse_placeholders                                                      *)
(***************************************************************************)
default_wrappers == <<"{", "}">>

\* Line 199 with the wrapper characters left out of the segment text
CollectUnwrapped(segment, char) ==
    IF char \in {"{", "}"} THEN segment ELSE Append(segment, char)

\* Line 199: segment += char
Collect(segment, char) == Append(segment, char)

\* The body of the for loop, for the character at 0-based position pos
PlaceholderStep(st, pos, char, ws, we) ==
    LET opened ==
            IF <<char>> = ws
            THEN LET data == [order |-> st.order, segment |-> st.segment,
                              type |-> "static", start |-> st.startpos,
                              end |-> pos, len |-> pos - st.startpos]
                     emit == Len(st.segment) > 0
                 IN  [st EXCEPT
                        !.segments = IF emit THEN Append(@, data) ELSE @,
                        !.static_segments = IF emit THEN Append(@, data) ELSE @,
                        !.order = IF emit THEN @ + 1 ELSE @,
                        !.startpos = pos,
                        !.segment = << >>]
            ELSE st
        collected == [opened EXCEPT !.segment = Collect(@, char)]
    IN  IF <<char>> = we
        THEN LET data == [order |-> collected.order,
                          segment |-> collected.segment,
                          type |-> "placeholder",
                          start |-> collected.startpos,
                          end |-> pos + 1,
                          len |-> pos - collected.startpos + 1,
                          name |-> Slice(collected.segment, 1, -1)]
                 emit == Len(collected.segment) > 0
             IN  [collected EXCEPT
                    !.placeholders = IF emit THEN Append(@, data) ELSE @,
                    !.segments = IF emit THEN Append(@, data) ELSE @,
                    !.order = IF emit THEN @ + 1 ELSE @,
                    !.startpos = pos,
                    !.segment = << >>]
        ELSE collected

RECURSIVE PlaceholderLoop(_, _, _, _, _)
PlaceholderLoop(st, value, pos, ws, we) ==
    IF pos >= Len(value) THEN st
    ELSE PlaceholderLoop(PlaceholderStep(st, pos, value[pos + 1], ws, we),
                         value, pos + 1, ws, we)

parse_placeholders(value, wrappers) ==
    LET ws   == Slice(wrappers, 0, 1)
        we   == Slice(wrappers, 1, 2)
        st0  == [segments |-> << >>, placeholders |-> << >>,
                 static_segments |-> << >>, order |-> 0, startpos |-> 0,
                 segment |-> << >>]
        st   == PlaceholderLoop(st0, value, 0, ws, we)
        pos  == Len(value) - 1
        data == [order |-> st.order, segment |-> st.segment, type |-> "static",
                 start |-> st.startpos, end |-> pos, len |-> pos - st.startpos]
        last == Len(st.segment) > 0
    IN  [original |-> value,
         segments |-> IF last THEN Append(st.segments, data) ELSE st.segments,
         placeholders |-> st.placeholders,
         static_segments |-> IF last THEN Append(st.static_segments, data)
                             ELSE st.static_segments,
         starting_wrapper |-> ws,
         closeing_wrapper |-> we]

(***************************************************************************)
(* Specification of parse_placeholders alone                               *)
(***************************************************************************)
MaxTemplateLen == 5

ParseAlphabet == {"a", "_", "{", "}"}

\* The example template of the documentation, file_{USER}_{DATE}.sh
ExampleTemplate ==
    <<"f", "i", "l", "e", "_", "{", "U", "S", "E", "R", "}", "_",
      "{", "D", "A", "T", "E", "}", ".", "s", "h">>

InitParse ==
    /\ fs = NoFiles
    /\ dirs = {}
    /\ call = NoCall
    /\ w = NoWriters
    /\ input \in TextsUpTo(ParseAlphabet, MaxTemplateLen) \cup {ExampleTemplate}

CallParse ==
    /\ call = NoCall
    /\ call' = [op |-> "parse_placeholders", value |-> input,
                out |-> parse_placeholders(input, default_wrappers)]
    /\ UNCHANGED <<fs, dirs, input, w>>

NextParse == CallParse

SpecParse == InitParse /\ [][NextParse]_vars

\* The texts of a list of segments, in order
SegmentTexts(segs) == [i \in 1..Len(segs) |-> segs[i].segment]

\* The placeholder names of a list of segments, in order
SegmentNames(segs) == [i \in 1..Len(segs) |-> segs[i].name]

\* How often a segment record occurs in a list
Occurrences(seg, segs) == Cardinality({i \in 1..Len(segs) : segs[i] = seg})

\* C9: concatenating the 'segment' text of all entries of 'segments' in order
\* gives the template back exactly, every segment is in exactly one of
\* static_segments and placeholders, and file_{USER}_{DATE}.sh has the static
\* texts file_, _, .sh and the placeholder names USER, DATE.
C9_SegmentsReconstruct ==
    call.op = "parse_placeholders" =>
        LET out == call.out
        IN  /\ Concat(SegmentTexts(out.segments)) = call.value
            /\ \A i \in 1..Len(out.segments) :
                  Occurrences(out.segments[i], out.static_segments)
                    + Occurrences(out.segments[i], out.placeholders) = 1
            /\ Len(out.segments)
                 = Len(out.static_segments) + Len(out.placeholders)
            /\ call.value = ExampleTemplate =>
                  /\ SegmentTexts(out.static_segments)
                       = << <<"f", "i", "l", "e", "_">>, <<"_">>,
                            <<".", "s", "h">> >>
                  /\ SegmentNames(out.placeholders)
                       = << <<"U", "S", "E", "R">>, <<"D", "A", "T", "E">> >>

\* C9 witness: the example template has been parsed, and so has a template
\* with nested, unmatched and adjacent wrapper characters.
C9_Witness ==
    /\ call.op = "parse_placeholders"
    /\ \/ call.value = ExampleTemplate
       \/ call.value = <<"{", "{", "a", "}", "}">>


(***************************************************************************)
(* The static-segment filter of load_envfile_to_dict                       *)
(***************************************************************************)
RECURSIVE SegmentLoop(_, _, _)
\* The for loop over static_segments for one file name: TRUE when the loop
\* ends with keep_file still set
SegmentLoop(file, segs, pos) ==
    IF segs = << >> THEN TRUE
    ELSE LET found == Find(file, Head(segs).segment,
                           IF pos = 0 THEN pos ELSE pos - 1)
         IN  IF found = -1 THEN FALSE
             ELSE SegmentLoop(file, Tail(segs), found + Head(segs).len)

keep_file(file, static_segments) == SegmentLoop(file, static_segments, 0)

RECURSIVE OrderedDisjoint(_, _, _)
\* The texts occur in the file name in order, each at or after the end of the
\* one before it, the first at or after position from
OrderedDisjoint(file, texts, from) ==
    IF texts = << >> THEN TRUE
    ELSE \E p \in from..Len(file) :
            /\ OccursAt(file, Head(texts), p)
            /\ OrderedDisjoint(file, Tail(texts), p + Len(Head(texts)))

MaxMatchTemplateLen == 4

MaxNameLen == 3

MatchTemplateAlphabet == {"a", "b", "{", "}"}

MatchNameAlphabet == {"a", "b"}

InitMatch ==
    /\ fs = NoFiles
    /\ dirs = {}
    /\ call = NoCall
    /\ w = NoWriters
    /\ input \in [template : {t \in TextsUpTo(MatchTemplateAlphabet,
                                              MaxMatchTemplateLen) :
                                Contains(t, <<"{">>)},
                  file : TextsUpTo(MatchNameAlphabet, MaxNameLen)]

\* Lines 121 and 130-140 of load_envfile_to_dict for one directory entry
CallMatch ==
    /\ call = NoCall
    /\ LET static_segments ==
               parse_placeholders(input.template, default_wrappers).static_segments
       IN  call' = [op |-> "match", template |-> input.template,
                    file |-> input.file,
                    static_segments |-> static_segments,
                    out |-> keep_file(input.file, static_segments)]
    /\ UNCHANGED <<fs, dirs, input, w>>

NextMatch == CallMatch

SpecMatch == InitMatch /\ [][NextMatch]_vars

\* C7: a file is a candidate of template resolution if and only if its name
\* holds every static segment of the template in left-to-right order, each
\* match starting at or after the end of the match before it, so that no
\* character of the name is shared by two matches.
C7_OrderedDisjointMatch ==
    call.op = "match" =>
        ( call.out <=> OrderedDisjoint(call.file,
                                       SegmentTexts(call.static_segments), 0) )


(***************************************************************************)
(* Paths (pathlib on POSIX) and the file system                            *)
(*   fs   : the regular files, absolute path -> content                    *)
(*   dirs : the directories, as absolute paths                             *)
(***************************************************************************)
Sep == <<"/">>

Root == Sep

\* The working directory of the process, which relative paths resolve against
cwd == <<"/", "w">>

IsAbsolute(p) == StartsWith(p, Sep)

\* Path.resolve() for a path without '..' components or symbolic links
Resolve(p) == IF IsAbsolute(p) THEN p ELSE cwd \o Sep \o p

\* Path.name
PathName(p) == SliceFrom(p, RFind(p, Sep) + 1)

\* Path.parent
PathParent(p) ==
    LET i == RFind(p, Sep)
    IN  IF i = -1 THEN <<".">> ELSE IF i = 0 THEN Root ELSE SliceTo(p, i)

\* parent / name
PathJoin(parent, name) ==
    IF parent = Root THEN Root \o name ELSE parent \o Sep \o name

\* Path.suffix: the last dot of the name and what follows it, unless the dot
\* is the first or the last character of the name
PathSuffix(p) ==
    LET name == PathName(p)
        i    == RFind(name, <<".">>)
    IN  IF 0 < i /\ i < Len(name) - 1 THEN SliceFrom(name, i) ELSE << >>

\* Path.stem
PathStem(p) ==
    LET name == PathName(p)
        i    == RFind(name, <<".">>)
    IN  IF 0 < i /\ i < Len(name) - 1 THEN SliceTo(name, i) ELSE name

RECURSIVE Ancestors(_)
\* The directories mkdir(parents=True) makes sure of: the path and every parent
Ancestors(d) ==
    IF d = Root \/ d = <<".">> THEN {Root}
    ELSE {d} \cup Ancestors(PathParent(d))

IsFile(files, p) == Resolve(p) \in DOMAIN files

IsDir(folders, p) == Resolve(p) \in folders

\* Path.exists()
Exists(files, folders, p) == IsFile(files, p) \/ IsDir(folders, p)

\* The names Path.iterdir() yields for a directory
Entries(files, folders, d) ==
    {PathName(p) : p \in {q \in DOMAIN files \cup (folders \ {Root}) :
                            PathParent(q) = Resolve(d)}}

\* The characters of the model in code point order
CodePoints ==
    <<"\t", NL, " ", "\"", "$", "'", "(", ")", ",", "-", ".", "/",
      "0", "1", "2", "3", "4", "5", "6", "7", "8", "9", ":", "<", "=",
      "A", "B", "C", "D", "E", "F", "G", "H", "I", "J", "K", "L", "M",
      "N", "O", "P", "Q", "R", "S", "T", "U", "V", "W", "X", "Y", "Z",
      "[", "\\", "]", "_",
      "a", "b", "c", "d", "e", "f", "g", "h", "i", "j", "k", "l", "m",
      "n", "o", "p", "q", "r", "s", "t", "u", "v", "w", "x", "y", "z",
      "{", "}", Half>>

Ord(c) == CHOOSE i \in 1..Len(CodePoints) : CodePoints[i] = c

RECURSIVE TextLess(_, _)
\* a < b for two texts
TextLess(a, b) ==
    IF b = << >> THEN FALSE
    ELSE IF a = << >> THEN TRUE
    ELSE IF Head(a) = Head(b) THEN TextLess(Tail(a), Tail(b))
    ELSE Ord(Head(a)) < Ord(Head(b))

RECURSIVE Sorted(_)
\* sorted(names) for a set of texts
Sorted(names) ==
    IF names = {} THEN << >>
    ELSE LET least == CHOOSE n \in names :
                         \A m \in names \ {n} : TextLess(n, m)
         IN  <<least>> \o Sorted(names \ {least})

\* The elements of a list that satisfy a test, in order
Filter(list, Test(_)) == SelectSeq(list, Test)

(***************************************************************************)
(* parse_filename_iterators                                                *)
(***************************************************************************)
DS_Store == <<".", "D", "S", "_", "S", "t", "o", "r", "e">>

\* len(fileary) > 0 and fileary[len(fileary)-1].isnumeric()
IsIterName(name) ==
    LET fileary == Split(PathStem(name), <<".">>)
    IN  Len(fileary) > 0 /\ IsNumeric(fileary[Len(fileary)])

RECURSIVE GroupFiles(_, _)
\* The loop over base_files that builds all_files
GroupFiles(base_files, iter_files) ==
    IF base_files = << >> THEN << >>
    ELSE LET base_file == Head(base_files)
             OfBase(iter_file) ==
                 StartsWith(PathStem(iter_file), PathStem(base_file))
         IN  <<base_file>> \o Filter(iter_files, OfBase)
             \o GroupFiles(Tail(base_files), iter_files)

\* The three lists, as file names of the folder, or the error raised
parse_filename_iterators(files, folders, folderpath) ==
    LET pth == IF IsDir(folders, folderpath) THEN folderpath
               ELSE PathParent(Resolve(folderpath))
    IN  IF ~IsDir(folders, pth) THEN Raise("ValueError")
        ELSE LET IsKept(f) == PathStem(f) # DS_Store
                 IsBase(f) == ~IsIterName(f)
                 listed == Filter(Sorted(Entries(files, folders, pth)), IsKept)
                 base_files == Filter(listed, IsBase)
                 iter_files == Filter(listed, IsIterName)
             IN  [type |-> "ok",
                  all_files |-> GroupFiles(base_files, iter_files),
                  base_files |-> base_files,
                  iter_files |-> iter_files]


(***************************************************************************)
(* str(), repr() and str.format() on the values of a mapping.  A mapping   *)
(* is the list of its items [k, v] in insertion order, with distinct keys. *)
(***************************************************************************)
\* str(x) of a float m * 10^-e with m >= 0, in the range where Python prints
\* a plain decimal
FloatText(m, e) ==
    LET raw    == NatToDigits(m)
        padded == [i \in 1..Max(e + 1 - Len(raw), 0) |-> "0"] \o raw
    IN  IF e = 0 THEN padded \o <<".", "0">>
        ELSE SliceTo(padded, Len(padded) - e) \o <<".">>
             \o SliceFrom(padded, Len(padded) - e)

\* repr(s) of a text: single quotes, unless the text holds a single quote and
\* no double quote
ReprText(s) ==
    LET q == IF Contains(s, <<"'">>) /\ ~Contains(s, <<"\"">>)
             THEN <<"\"">> ELSE <<"'">>
        Escaped(c) == IF c = "\\" THEN <<"\\", "\\">>
                      ELSE IF c = NL THEN <<"\\", "n">>
                      ELSE IF c = "\t" THEN <<"\\", "t">>
                      ELSE IF <<c>> = q THEN <<"\\", c>>
                      ELSE <<c>>
    IN  q \o Concat([i \in 1..Len(s) |-> Escaped(s[i])]) \o q

RECURSIVE Str(_)
\* str(val); the elements of a list are written with repr()
Str(val) ==
    CASE val.type = "int" ->
            IF val.i < 0 THEN <<"-">> \o NatToDigits(-val.i)
            ELSE NatToDigits(val.i)
      [] val.type = "float" ->
            IF val.m < 0 THEN <<"-">> \o FloatText(-val.m, val.e)
            ELSE FloatText(val.m, val.e)
      [] val.type = "str" -> val.s
      [] val.type = "bool" ->
            IF val.b THEN <<"T", "r", "u", "e">>
            ELSE <<"F", "a", "l", "s", "e">>
      [] val.type = "list" ->
            <<"[">>
            \o Join([i \in 1..Len(val.items) |->
                        IF val.items[i].type = "str"
                        THEN ReprText(val.items[i].s)
                        ELSE Str(val.items[i])], <<",", " ">>)
            \o <<"]">>

Keys(items) == {items[i].k : i \in 1..Len(items)}

\* mapping[name]
Lookup(items, name) ==
    items[CHOOSE i \in 1..Len(items) : items[i].k = name].v

RECURSIVE Format(_, _)
\* template.format(**mapping) for replacement fields that are plain names:
\* the text, or the error raised at the first field that fails
Format(template, items) ==
    IF template = << >> THEN [type |-> "ok", text |-> << >>]
    ELSE
    LET c     == Head(template)
        close == Find(template, <<"}">>, 1)
        name  == Slice(template, 1, close)
        Then(text, rest) ==
            LET tail == Format(rest, items)
            IN  IF Raised(tail) THEN tail
                ELSE [type |-> "ok", text |-> text \o tail.text]
    IN  IF c = "{"
        THEN IF Slice(template, 1, 2) = <<"{">>
             THEN Then(<<"{">>, SliceFrom(template, 2))
             ELSE IF close = -1 \/ Contains(name, <<"{">>)
             THEN Raise("ValueError")
             ELSE IF name = << >> \/ IsNumeric(name) THEN Raise("IndexError")
             ELSE IF name \notin Keys(items) THEN Raise("KeyError")
             ELSE Then(Str(Lookup(items, name)), SliceFrom(template, close + 1))
        ELSE IF c = "}"
        THEN IF Slice(template, 1, 2) = <<"}">>
             THEN Then(<<"}">>, SliceFrom(template, 2))
             ELSE Raise("ValueError")
        ELSE Then(<<c>>, Tail(template))

(***************************************************************************)
(* save_dict_as_envfile                                                    *)
(***************************************************************************)
docstring_marker == <<"E", "O", "M", "s", "g">>

docstring_prefix ==
    <<"$", "(", "c", "a", "t", " ", "<", "<", " ">> \o docstring_marker \o <<NL>>

docstring_suffix == <<NL>> \o docstring_marker \o <<NL, ")">>

iteration_zero_pad == 6

\* Line 61 with the error of format() swallowed: the template is then used
\* as it stands
SubstitutedPathLenient(save_path, save_dict) ==
    IF save_dict # << >> /\ ~Raised(Format(save_path, save_dict))
    THEN [type |-> "ok", path |-> Resolve(Format(save_path, save_dict).text)]
    ELSE [type |-> "ok", path |-> Resolve(save_path)]

\* Line 61: the substituted and resolved path, or the error format() raises
SubstitutedPath(save_path, save_dict) ==
    IF save_dict # << >>
    THEN LET f == Format(save_path, save_dict)
         IN  IF Raised(f) THEN f ELSE [type |-> "ok", path |-> Resolve(f.text)]
    ELSE [type |-> "ok", path |-> Resolve(save_path)]

\* Line 62: pth.parent.mkdir(parents=True, exist_ok=True)
MakeDirs(files, folders, parent) ==
    IF \E d \in Ancestors(parent) : d \in DOMAIN files
    THEN Raise(IF parent \in DOMAIN files THEN "FileExistsError"
               ELSE "NotADirectoryError")
    ELSE [type |-> "ok", dirs |-> folders \cup Ancestors(parent)]

\* str(iter).rjust(width, '0')
RJust(text, width) == [i \in 1..Max(width - Len(text), 0) |-> "0"] \o text

\* Line 66
ExtLen(pth) == -Len(PathSuffix(pth))

\* Line 67
Pos1(pth) == Len(SliceTo(pth, ExtLen(pth)))

\* Line 70: the name tried for an iteration number
IterationPath(pth, pos1, extlen, iter, pad) ==
    SliceTo(pth, pos1) \o <<".">> \o RJust(NatToDigits(iter), pad)
    \o SliceFrom(pth, extlen)

\* The loop of lines 68-70 left out: the first path is taken as it is
IterationLoopUnchecked(files, folders, pth, pos1, extlen, iter, pad) ==
    [pth |-> pth, iter |-> iter]

RECURSIVE IterationLoop(_, _, _, _, _, _, _)
\* Lines 68-70: the path and iteration number the while loop ends with
IterationLoop(files, folders, pth, pos1, extlen, iter, pad) ==
    IF Exists(files, folders, pth)
    THEN IterationLoop(files, folders,
                       IterationPath(pth, pos1, extlen, iter + 1, pad),
                       pos1, extlen, iter + 1, pad)
    ELSE [pth |-> pth, iter |-> iter]

SupportedTypes == {"str", "int", "float", "list"}

\* Line 78
SanitizedName(nm) ==
    LET Kept(c) == IsAlnum(c) \/ c = "_"
    IN  SelectSeq(nm, Kept)

\* Lines 78-86: the row of one entry
EntryLine(nm, val) ==
    LET q    == IF val.type \in {"int", "float"} THEN << >> ELSE <<"\"">>
        text == Str(val)
    IN  IF Contains(text, <<NL>>)
        THEN LET cut == IF SliceTo(text, 1) = <<NL>> THEN SliceFrom(text, 1)
                        ELSE text
             IN  SanitizedName(nm) \o <<"=">> \o docstring_prefix
                 \o RStrip(cut) \o docstring_suffix
        ELSE SanitizedName(nm) \o <<"=">> \o q \o text \o q

\* Lines 74-87
Lines(save_dict) ==
    LET Supported(item) == item.v.type \in SupportedTypes
        kept == SelectSeq(save_dict, Supported)
    IN  [i \in 1..Len(kept) |-> EntryLine(kept[i].k, kept[i].v)]

\* Lines 90-91 with the file opened in append mode
WriteFileAppend(files, folders, pth, content) ==
    IF PathParent(Resolve(pth)) \notin folders THEN Raise("FileNotFoundError")
    ELSE [type |-> "ok",
          fs |-> [p \in DOMAIN files \cup {Resolve(pth)} |->
                    IF p # Resolve(pth) THEN files[p]
                    ELSE IF p \in DOMAIN files THEN files[p] \o content
                    ELSE content]]

\* Lines 90-91: open(pth, 'w') and write: the files afterwards, or the error
WriteFile(files, folders, pth, content) ==
    LET target == Resolve(pth)
    IN  IF target \in folders THEN Raise("IsADirectoryError")
        ELSE IF PathParent(target) \in DOMAIN files
        THEN Raise("NotADirectoryError")
        ELSE IF PathParent(target) \notin folders
        THEN Raise("FileNotFoundError")
        ELSE [type |-> "ok",
              fs |-> [p \in DOMAIN files \cup {target} |->
                        IF p = target THEN content ELSE files[p]]]

\* A call that raises leaves the files as they were
SaveFailed(files, folders, exc) == [fs |-> files, dirs |-> folders, out |-> exc]

\* Line 93, after the write
SaveWritten(files, folders, pth, wrote) ==
    IF Raised(wrote) THEN SaveFailed(files, folders, wrote)
    ELSE [fs |-> wrote.fs, dirs |-> folders,
          out |-> [type |-> "ok", path |-> pth]]

\* Lines 73-93, with the final path chosen
SaveAt(files, folders, save_dict, pth) ==
    SaveWritten(files, folders, pth,
                WriteFile(files, folders, pth, Join(Lines(save_dict), <<NL>>)))

\* Lines 64-93, after mkdir
SaveInFolder(files, folders, save_dict, pad, path, made) ==
    IF Raised(made) THEN SaveFailed(files, folders, made)
    ELSE SaveAt(files, made.dirs, save_dict,
                IterationLoop(files, made.dirs, path, Pos1(path),
                              ExtLen(path), 0, pad).pth)

\* Lines 62-93, after the substitution of line 61
SaveSubstituted(files, folders, save_dict, pad, subst) ==
    IF Raised(subst) THEN SaveFailed(files, folders, subst)
    ELSE SaveInFolder(files, folders, save_dict, pad, subst.path,
                      MakeDirs(files, folders, PathParent(subst.path)))

\* The whole call: the file system afterwards and the path returned or the
\* error raised
save_dict_as_envfile(files, folders, save_path, save_dict, pad) ==
    IF save_path = << >> THEN SaveFailed(files, folders, Raise("ValueError"))
    ELSE SaveSubstituted(files, folders, save_dict, pad,
                         SubstitutedPath(save_path, save_dict))

(***************************************************************************)
(* load_envfile_to_dict                                                    *)
(***************************************************************************)
END_SENTINEL == <<":", ":", "E", "N", "D", ":", ":">>

\* The synthetic key 'load_envfile_to_dict--FilePath_Selected'
FilePathKey ==
    <<"l", "o", "a", "d", "_", "e", "n", "v", "f", "i", "l", "e", "_", "t",
      "o", "_", "d", "i", "c", "t", "-", "-", "F", "i", "l", "e", "P", "a",
      "t", "h", "_", "S", "e", "l", "e", "c", "t", "e", "d">>

\* rtn[name] = value
Put(rtn, name, value) ==
    [k \in DOMAIN rtn \cup {name} |-> IF k = name THEN value ELSE rtn[k]]

EmptyDict == [k \in {} |-> << >>]

RECURSIVE DecodeLoop(_, _, _)
\* Lines 157-171, from the line at index i on: the mapping built, or the error
\* raised; "Hang" when the while True loop never meets the sentinel
DecodeLoop(lines, i, rtn) ==
    IF i > Len(lines) THEN [type |-> "ok", rtn |-> rtn]
    ELSE
    LET line  == lines[i]
        eq    == Find(line, <<"=">>, 0)
        name  == SliceTo(line, eq)
        raw   == SliceFrom(line, eq + 1)
        value == IF SliceTo(raw, 1) = <<"\"">> /\ SliceFrom(raw, -1) = <<"\"">>
                 THEN Slice(raw, 1, -1) ELSE raw
    IN  IF StartsWith(value, Strip(docstring_prefix))
        THEN LET ends == {j \in (i + 1)..Len(lines) :
                            Contains(lines[j], END_SENTINEL)}
             IN  IF ends = {} THEN Raise("Hang")
                 ELSE
                 LET j == CHOOSE e \in ends : \A o \in ends : e <= o
                     multiline == SubSeq(lines, i + 1, j - 1)
                     typed == infer_datatype(Join(multiline, <<NL>>))
                 IN  IF Raised(typed) THEN typed
                     ELSE DecodeLoop(lines, j + 1, Put(rtn, name, typed))
        ELSE LET typed == infer_datatype(value)
             IN  IF Raised(typed) THEN typed
                 ELSE DecodeLoop(lines, i + 1, Put(rtn, name, typed))

\* Lines 152-171 for the text of a file
Decode(content) ==
    DecodeLoop(Split(Replace(content, docstring_suffix, <<NL>> \o END_SENTINEL),
                     <<NL>>),
               1, EmptyDict)

\* return_sorted[:3] in ['fir', 'ear', 'asc']
WantsFirst(return_sorted) ==
    SliceTo(return_sorted, 3) \in {<<"f", "i", "r">>, <<"e", "a", "r">>,
                                   <<"a", "s", "c">>}

\* Lines 130-140: the names of all_files that keep keep_file
ValidFiles(all_files, static_segments) ==
    LET Kept(file) == keep_file(file, static_segments)
    IN  SelectSeq(all_files, Kept)

\* Lines 142-145 with return_sorted ignored
SelectFileFirst(valid_files, return_sorted) == valid_files[1]

\* Lines 142-145
SelectFile(valid_files, return_sorted) ==
    IF WantsFirst(return_sorted) THEN valid_files[1]
    ELSE valid_files[Len(valid_files)]

\* Lines 142-145, with valid_files built: an empty list has no element to take
SelectValid(parent, valid_files, return_sorted) ==
    IF valid_files = << >> THEN Raise("IndexError")
    ELSE [type |-> "ok",
          path |-> PathJoin(parent, SelectFile(valid_files, return_sorted))]

\* Lines 118-145: the template logic for a path that does not exist
SelectByTemplate(files, folders, pth, return_sorted) ==
    IF ~Contains(PathName(pth), <<"{">>) THEN Raise("FileNotFoundError")
    ELSE IF PathParent(pth) \in DOMAIN files THEN Raise("NotADirectoryError")
    ELSE IF PathParent(pth) \notin folders THEN Raise("FileNotFoundError")
    ELSE SelectValid(
            PathParent(pth),
            ValidFiles(
                parse_filename_iterators(files, folders, PathParent(pth)).all_files,
                parse_placeholders(PathName(pth), default_wrappers).static_segments),
            return_sorted)

\* Lines 115-145: the path to read, or the error raised.  exact_match_only is
\* a parameter the body never reads.
SelectedPath(files, folders, load_path, return_sorted, exact_match_only) ==
    IF Exists(files, folders, load_path)
    THEN [type |-> "ok", path |-> Resolve(load_path)]
    ELSE SelectByTemplate(files, folders, Resolve(load_path), return_sorted)

\* Lines 172-173
LoadDecoded(path, decoded) ==
    IF Raised(decoded) THEN decoded
    ELSE [type |-> "ok", path |-> path,
          rtn |-> Put(decoded.rtn, FilePathKey, StrV(path))]

\* Lines 148-173, with the path selected
LoadSelected(files, folders, sel) ==
    IF Raised(sel) THEN sel
    ELSE IF sel.path \in folders THEN Raise("IsADirectoryError")
    ELSE LoadDecoded(sel.path, Decode(files[sel.path]))

\* The whole call: the mapping returned and the path read, or the error
load_envfile_to_dict(files, folders, load_path, return_sorted, exact_match_only) ==
    IF load_path = << >> THEN Raise("ValueError")
    ELSE LoadSelected(files, folders,
                      SelectedPath(files, folders, load_path, return_sorted,
                                   exact_match_only))

(***************************************************************************)
(* The store used by one caller at a time: every call runs to its end      *)
(* before the next one starts.                                             *)
(*   call : the last call made, its arguments and its outcome; for a save  *)
(*          also the files and directories as they were before it          *)
(***************************************************************************)
\* The most files the store holds before no further save is made
MaxFiles == 3

\* '/d'
DirD ==
    <<"/", "d">>

\* '/e'
DirE ==
    <<"/", "e">>

\* '/d/report_{USER}.sh'
ReportTemplate ==
    <<"/", "d", "/", "r", "e", "p", "o", "r", "t", "_", "{", "U", "S", "E",
      "R", "}", ".", "s", "h">>

\* '/e/report_{USER}.sh'
NewDirTemplate ==
    <<"/", "e", "/", "r", "e", "p", "o", "r", "t", "_", "{", "U", "S", "E",
      "R", "}", ".", "s", "h">>

\* '/d/report'
NoExtensionPath ==
    <<"/", "d", "/", "r", "e", "p", "o", "r", "t">>

\* '/d/report_Bob.sh'
ReportBob ==
    <<"/", "d", "/", "r", "e", "p", "o", "r", "t", "_", "B", "o", "b", ".",
      "s", "h">>

\* '/d/report_Steve.sh'
ReportSteve ==
    <<"/", "d", "/", "r", "e", "p", "o", "r", "t", "_", "S", "t", "e", "v",
      "e", ".", "s", "h">>

\* '/d/report_Steve.000001.sh'
ReportSteve1 ==
    <<"/", "d", "/", "r", "e", "p", "o", "r", "t", "_", "S", "t", "e", "v",
      "e", ".", "0", "0", "0", "0", "0", "1", ".", "s", "h">>

\* 'USER'
USER ==
    <<"U", "S", "E", "R">>

\* 'Bob'
Bob ==
    <<"B", "o", "b">>

\* 'Steve'
Steve ==
    <<"S", "t", "e", "v", "e">>

\* 'latest'
Latest ==
    <<"l", "a", "t", "e", "s", "t">>

\* 'earliest'
Earliest ==
    <<"e", "a", "r", "l", "i", "e", "s", "t">>

\* 'first'
First ==
    <<"f", "i", "r", "s", "t">>

\* 'asc'
Ascending ==
    <<"a", "s", "c">>

BobDict == <<[k |-> USER, v |-> StrV(Bob)]>>

SteveDict == <<[k |-> USER, v |-> StrV(Steve)], [k |-> <<"n">>, v |-> IntV(1)]>>

NoUserDict == <<[k |-> <<"n">>, v |-> IntV(2)]>>

SaveTemplates == {ReportTemplate, NewDirTemplate, NoExtensionPath}

SaveDicts == {BobDict, SteveDict, NoUserDict, << >>}

Pads == {iteration_zero_pad}

LoadPaths == {ReportTemplate, NewDirTemplate, ReportBob}

SortOrders == {Latest, Earliest, First, Ascending}

Init ==
    /\ fs = NoFiles
    /\ dirs = {Root, cwd, DirD}
    /\ call = NoCall
    /\ input = << >>
    /\ w = NoWriters

\* The record of a save: its outcome and the store as it was before
SaveRecord(save_path, save_dict, pad, r) ==
    [op |-> "save", save_path |-> save_path, save_dict |-> save_dict,
     pad |-> pad, out |-> r.out, before |-> fs, dirs_before |-> dirs]

SaveEffect(save_path, save_dict, pad, r) ==
    /\ fs' = r.fs
    /\ dirs' = r.dirs
    /\ call' = SaveRecord(save_path, save_dict, pad, r)

Save(save_path, save_dict, pad) ==
    /\ Cardinality(DOMAIN fs) < MaxFiles
    /\ SaveEffect(save_path, save_dict, pad,
                  save_dict_as_envfile(fs, dirs, save_path, save_dict, pad))
    /\ UNCHANGED <<input, w>>

\* The record of a load: the path the resolution selected and the outcome
LoadRecord(load_path, return_sorted, exact_match_only, sel) ==
    [op |-> "load", load_path |-> load_path, return_sorted |-> return_sorted,
     exact_match_only |-> exact_match_only, selected |-> sel,
     out |-> IF load_path = << >> THEN Raise("ValueError")
             ELSE LoadSelected(fs, dirs, sel)]

Load(load_path, return_sorted, exact_match_only) ==
    /\ call' = LoadRecord(load_path, return_sorted, exact_match_only,
                          SelectedPath(fs, dirs, load_path, return_sorted,
                                       exact_match_only))
    /\ UNCHANGED <<fs, dirs, input, w>>

SaveCall ==
    \E save_path \in SaveTemplates, save_dict \in SaveDicts, pad \in Pads :
        Save(save_path, save_dict, pad)

LoadCall ==
    \E load_path \in LoadPaths, return_sorted \in SortOrders,
       exact_match_only \in BOOLEAN :
        Load(load_path, return_sorted, exact_match_only)

Next == SaveCall \/ LoadCall

Spec == Init /\ [][Next]_vars


(***************************************************************************)
(* Claims about the store used by one caller at a time                     *)
(***************************************************************************)
\* The destination of a save: its template with the mapping's values filled in
Destination(c) == SubstitutedPath(c.save_path, c.save_dict)

\* A path with '.' and the number k, zero-padded to the default width,
\* inserted before its extension
NumberedPath(path, k) ==
    SubSeq(path, 1, Len(path) - Len(PathSuffix(path)))
    \o <<".">> \o RJust(NatToDigits(k), iteration_zero_pad) \o PathSuffix(path)

\* Nothing was at the path when the last save began
FreeBefore(path) ==
    /\ Resolve(path) \notin DOMAIN call.before
    /\ Resolve(path) \notin dirs

\* The path the claim expects a save to the destination to write:
\* the destination itself when it is free, else the numbered path with the
\* smallest number >= 1 whose name is free
ExpectedPath(path) ==
    IF FreeBefore(path) THEN path
    ELSE LET free == {k \in 1..(Cardinality(DOMAIN call.before) + 1) :
                        FreeBefore(NumberedPath(path, k))}
         IN  NumberedPath(path, CHOOSE k \in free : \A j \in free : k <= j)

\* C2: every save to a destination, with or without a file extension and with
\* the default padding, succeeds and writes one more file: at the destination
\* when it is free, else at the destination with '.' and the smallest free
\* iteration number >= 1, zero-padded to 6 digits, before the extension; the
\* files written earlier stay, so n saves leave n distinct files.
C2_CollisionNumbering ==
    ( /\ call.op = "save"
      /\ call.pad = iteration_zero_pad
      /\ ~Raised(Destination(call)) )
    => /\ call.out.type = "ok"
       /\ call.out.path = ExpectedPath(Destination(call).path)
       /\ call.out.path \in DOMAIN fs
       /\ DOMAIN call.before \subseteq DOMAIN fs
       /\ Cardinality(DOMAIN fs) = Cardinality(DOMAIN call.before) + 1

\* C3: the path a save writes did not exist just before the call, every file
\* that existed before the call is still there with the same content, and a
\* successful call adds exactly one file (a failed call adds none).
C3_FreshWrite ==
    call.op = "save" =>
        /\ \A p \in DOMAIN call.before :
              p \in DOMAIN fs /\ fs[p] = call.before[p]
        /\ call.out.type = "ok" =>
              /\ Resolve(call.out.path) \notin DOMAIN call.before
              /\ DOMAIN fs = DOMAIN call.before \cup {Resolve(call.out.path)}
              /\ Cardinality(DOMAIN fs) = Cardinality(DOMAIN call.before) + 1
        /\ Raised(call.out) => fs = call.before

\* C3 witness: a save whose destination was taken has written a numbered file
\* beside the files that were there.
C3_Witness ==
    /\ call.op = "save"
    /\ call.out.type = "ok"
    /\ call.before # NoFiles
    /\ Destination(call).path \in DOMAIN call.before
    /\ call.out.path # Destination(call).path

\* The template names a placeholder the mapping has no key for
MissingKey(template, mapping) ==
    \E i \in 1..Len(parse_placeholders(template, default_wrappers).placeholders) :
        parse_placeholders(template, default_wrappers).placeholders[i].name
            \notin Keys(mapping)

\* C5: a save with a non-empty mapping and a template that references a
\* {name} absent from the mapping fails with a missing-key error before any
\* file I/O: no directory is created and no file is created or modified.
C5_MissingKeyError ==
    ( /\ call.op = "save"
      /\ call.save_dict # << >>
      /\ MissingKey(call.save_path, call.save_dict) )
    => /\ call.out = Raise("KeyError")
       /\ fs = call.before
       /\ dirs = call.dirs_before

\* C5 witness: a save into a directory that does not exist yet has failed on
\* a missing key, and the directory still does not exist.
C5_Witness ==
    /\ call.op = "save"
    /\ call.save_dict # << >>
    /\ MissingKey(call.save_path, call.save_dict)
    /\ call.out = Raise("KeyError")
    /\ PathParent(call.save_path) \notin dirs

\* C6: a load with exact_match_only=True whose resolved load_path does not
\* exist skips the template logic: it selects and reads no other file, and
\* the call fails.
C6_ExactMatchOnly ==
    ( /\ call.op = "load"
      /\ call.exact_match_only
      /\ ~Exists(fs, dirs, call.load_path) )
    => /\ Raised(call.selected)
       /\ Raised(call.out)

\* sort_order begins with 'fir', 'ear' or 'asc'
BeginsAscending(sort_order) ==
    \E prefix \in {<<"f", "i", "r">>, <<"e", "a", "r">>, <<"a", "s", "c">>} :
        StartsWith(sort_order, prefix)

\* The grouped ordering of the folder of a load path
Grouped(load_path) ==
    parse_filename_iterators(fs, dirs, PathParent(Resolve(load_path))).all_files

\* The positions of the grouped ordering whose entry matches the template
Matching(load_path) ==
    {i \in 1..Len(Grouped(load_path)) :
        keep_file(Grouped(load_path)[i],
                  parse_placeholders(PathName(load_path),
                                     default_wrappers).static_segments)}

\* The entry the claim expects a load to read: the first matching entry of the
\* grouped ordering for an ascending sort order, the last one otherwise
ExpectedEntry(load_path, sort_order) ==
    LET m == Matching(load_path)
        i == IF BeginsAscending(sort_order)
             THEN CHOOSE a \in m : \A b \in m : a <= b
             ELSE CHOOSE a \in m : \A b \in m : b <= a
    IN  PathJoin(PathParent(Resolve(load_path)), Grouped(load_path)[i])

\* C8: when the exact path does not exist and at least one file matches the
\* template, the load reads the first matching entry of the grouped ordering
\* if sort_order begins with 'fir', 'ear' or 'asc' and the last matching entry
\* otherwise; with report_Bob.sh, report_Steve.sh and report_Steve.000001.sh,
\* the template report_{USER}.sh and 'latest' it reads report_Steve.000001.sh.
C8_CandidateSelection ==
    ( /\ call.op = "load"
      /\ ~Exists(fs, dirs, call.load_path)
      /\ PathParent(Resolve(call.load_path)) \in dirs
      /\ Contains(PathName(call.load_path), <<"{">>)
      /\ Matching(call.load_path) # {} )
    => LET expected == ExpectedEntry(call.load_path, call.return_sorted)
       IN  /\ call.selected = [type |-> "ok", path |-> expected]
           /\ call.out.type = "ok"
           /\ call.out.path = expected
           /\ call.out.rtn = Put(Decode(fs[expected]).rtn, FilePathKey,
                                 StrV(expected))
           /\ ( /\ DOMAIN fs = {ReportBob, ReportSteve, ReportSteve1}
                /\ call.load_path = ReportTemplate
                /\ call.return_sorted = Latest )
              => call.out.path = ReportSteve1

\* C8 witness: with the three files of the example in the folder, a 'latest'
\* load of the template has read report_Steve.000001.sh.
C8_Witness ==
    /\ call.op = "load"
    /\ DOMAIN fs = {ReportBob, ReportSteve, ReportSteve1}
    /\ call.load_path = ReportTemplate
    /\ call.return_sorted = Latest
    /\ call.out.type = "ok"
    /\ call.out.path = ReportSteve1


(***************************************************************************)
(* Two callers saving at the same time.  A call is a sequence of file      *)
(* system operations with nothing held between them: mkdir (line 62), one  *)
(* pth.exists() per turn of the while loop (line 68) and the open and      *)
(* write (lines 90-91).  w[p] is the call of writer p: where it is, and    *)
(* its local variables pth, pos1, extlen and iter.                         *)
(***************************************************************************)
Writers == {"A", "B"}

BobCountDict == <<[k |-> USER, v |-> StrV(Bob)], [k |-> <<"n">>, v |-> IntV(1)]>>

RaceTemplates == {ReportTemplate, NoExtensionPath}

RaceDicts == {BobDict, BobCountDict, SteveDict}

\* The text save_dict_as_envfile writes for a mapping
Content(save_dict) == Join(Lines(save_dict), <<NL>>)

Idle ==
    [pc |-> "idle", save_dict |-> << >>, pad |-> 0, pth |-> << >>,
     pos1 |-> 0, extlen |-> 0, iter |-> 0, out |-> NoCall]

Finished(st, out) == [st EXCEPT !.pc = "done", !.out = out]

InitRace ==
    /\ fs \in {NoFiles, [p \in {ReportBob} |-> Content(BobDict)]}
    /\ dirs = {Root, cwd, DirD}
    /\ call = NoCall
    /\ input = fs
    /\ w = [p \in Writers |-> Idle]

\* Lines 62-67, with the path of line 61
RaceEnter(p, save_dict, pad, path, made) ==
    IF Raised(made)
    THEN /\ w' = [w EXCEPT ![p] = Finished(@, made)]
         /\ UNCHANGED dirs
    ELSE /\ dirs' = made.dirs
         /\ w' = [w EXCEPT ![p] = [pc |-> "check", save_dict |-> save_dict,
                                   pad |-> pad, pth |-> path,
                                   pos1 |-> Pos1(path), extlen |-> ExtLen(path),
                                   iter |-> 0, out |-> NoCall]]

\* Lines 60-67, with the outcome of the substitution of line 61
RaceSubstituted(p, save_dict, pad, subst) ==
    IF Raised(subst)
    THEN /\ w' = [w EXCEPT ![p] = Finished(@, subst)]
         /\ UNCHANGED dirs
    ELSE RaceEnter(p, save_dict, pad, subst.path,
                   MakeDirs(fs, dirs, PathParent(subst.path)))

\* Lines 60-67: the call begins
RaceStart(p, save_path, save_dict, pad) ==
    /\ w[p].pc = "idle"
    /\ RaceSubstituted(p, save_dict, pad, SubstitutedPath(save_path, save_dict))
    /\ UNCHANGED <<fs, call, input>>

\* Lines 68-70: one test of the while condition, and the loop body if it holds
RaceCheck(p) ==
    /\ w[p].pc = "check"
    /\ IF Exists(fs, dirs, w[p].pth)
       THEN w' = [w EXCEPT ![p].iter = @ + 1,
                           ![p].pth = IterationPath(w[p].pth, w[p].pos1,
                                                    w[p].extlen, w[p].iter + 1,
                                                    w[p].pad)]
       ELSE w' = [w EXCEPT ![p].pc = "write"]
    /\ UNCHANGED <<fs, dirs, call, input>>

\* Lines 90-93, with the outcome of the write
RaceWritten(p, wrote) ==
    IF Raised(wrote)
    THEN /\ w' = [w EXCEPT ![p] = Finished(@, wrote)]
         /\ UNCHANGED fs
    ELSE /\ fs' = wrote.fs
         /\ w' = [w EXCEPT ![p] = Finished(@, [type |-> "ok", path |-> w[p].pth])]

\* Lines 73-93: the rows are built and written to the path the loop ended with
RaceWrite(p) ==
    /\ w[p].pc = "write"
    /\ RaceWritten(p, WriteFile(fs, dirs, w[p].pth, Content(w[p].save_dict)))
    /\ UNCHANGED <<dirs, call, input>>

StartStep ==
    \E p \in Writers, save_path \in RaceTemplates, save_dict \in RaceDicts :
        RaceStart(p, save_path, save_dict, iteration_zero_pad)

CheckStep == \E p \in Writers : RaceCheck(p)

WriteStep == \E p \in Writers : RaceWrite(p)

NextRace == StartStep \/ CheckStep \/ WriteStep

SpecRace == InitRace /\ [][NextRace]_vars

\* Both calls have returned, and returned the same path
SamePathReturned(p, q) ==
    /\ p # q
    /\ w[p].pc = "done" /\ w[p].out.type = "ok"
    /\ w[q].pc = "done" /\ w[q].out.type = "ok"
    /\ w[p].out.path = w[q].out.path

\* C4: the existence check and the write of a save are separate steps with no
\* lock, so two interleaved saves to one destination can both see the same
\* name free and both return it; whenever they do, the two calls have added
\* one file, not two, and it holds the rows of one call only: what the other
\* call wrote is lost.
C4_RaceLosesWrite ==
    \A p, q \in Writers :
        SamePathReturned(p, q) =>
            /\ DOMAIN fs = DOMAIN input \cup {w[p].out.path}
            /\ fs[w[p].out.path]
                 \in {Content(w[p].save_dict), Content(w[q].save_dict)}

\* C4 witness: two saves of different mappings have both met a taken
\* destination, both seen the same numbered name free and both returned it;
\* the file holds the rows of one of them and the other's rows are in no file.
C4_Witness ==
    \E p, q \in Writers :
        /\ SamePathReturned(p, q)
        /\ w[p].iter = 1 /\ w[q].iter = 1
        /\ Content(w[p].save_dict) # Content(w[q].save_dict)
        /\ fs[w[p].out.path] = Content(w[p].save_dict)
        /\ \A f \in DOMAIN fs : fs[f] # Content(w[q].save_dict)

(***************************************************************************)
(* A mapping written and read back.  input is the mapping; the save writes *)
(* it to a path without placeholders and the load reads the path the save  *)
(* returned.  call.saved is the outcome of the save.                       *)
(***************************************************************************)
\* '/d/env.sh'
CodecPath == <<"/", "d", "/", "e", "n", "v", ".", "s", "h">>

\* The most entries of a mapping written
MaxEntries == 2

\* The most elements of a list value
MaxItems == 2

CodecInts == {IntV(0), IntV(7), IntV(123), IntV(-5)}

CodecFloats == {FloatV(15, 1), FloatV(2, 0), FloatV(-15, 1)}

CodecStrings ==
    {StrV(<<"a">>), StrV(<<"a", " ", "b">>), StrV(<<"1", "2", "3">>),
     StrV(<<"1", ".", "5">>), StrV(<<"[", "a", "]">>),
     StrV(<<"a", NL, "b">>), StrV(<<"[", "a", NL, "b", "]">>),
     StrV(<<"a", NL, ":", ":", "E", "N", "D", ":", ":">>)}

CodecScalars == {IntV(1), IntV(-1), FloatV(15, 1), StrV(<<"a">>)}

CodecLists ==
    {ListV(items) : items \in UNION {[1..n -> CodecScalars] : n \in 0..MaxItems}}

CodecValues == CodecInts \cup CodecFloats \cup CodecStrings \cup CodecLists

CodecKeys == <<<<"k">>, <<"j">>>>

CodecMappings ==
    UNION {{[i \in 1..n |-> [k |-> CodecKeys[i], v |-> vals[i]]] :
              vals \in [1..n -> CodecValues]} : n \in 1..MaxEntries}

InitCodec ==
    /\ fs = NoFiles
    /\ dirs = {Root, cwd, DirD}
    /\ call = NoCall
    /\ input \in CodecMappings
    /\ w = NoWriters

\* save_dict_as_envfile(CodecPath, input)
CodecSave ==
    /\ call.op = "none"
    /\ LET r == save_dict_as_envfile(fs, dirs, CodecPath, input,
                                     iteration_zero_pad)
       IN  /\ fs' = r.fs
           /\ dirs' = r.dirs
           /\ call' = [op |-> "save", saved |-> r.out, out |-> r.out]
    /\ UNCHANGED <<input, w>>

\* load_envfile_to_dict(the path the save returned)
CodecLoad ==
    /\ call.op = "save"
    /\ ~Raised(call.saved)
    /\ call' = [op |-> "load", saved |-> call.saved,
                out |-> load_envfile_to_dict(fs, dirs, call.saved.path,
                                             Latest, FALSE)]
    /\ UNCHANGED <<fs, dirs, input, w>>

NextCodec == CodecSave \/ CodecLoad

SpecCodec == InitCodec /\ [][NextCodec]_vars

\* C1: a mapping of integers, floats, strings and flat lists of scalars that
\* is saved and then loaded from the returned path comes back with, for every
\* original key, the same value of the same type.
C1_RoundTrip ==
    call.op = "load" =>
        /\ ~Raised(call.out)
        /\ \A i \in 1..Len(input) :
              /\ input[i].k \in DOMAIN call.out.rtn
              /\ call.out.rtn[input[i].k] = input[i].v

\* C1 witness: the integer -5 was saved under key k and the load returned the
\* text '-5' for it.
C1_Witness ==
    /\ call.op = "load"
    /\ input = <<[k |-> <<"k">>, v |-> IntV(-5)]>>
    /\ ~Raised(call.out)
    /\ call.out.rtn[<<"k">>] = StrV(<<"-", "5">>)

\* A string value with a newline in it, no leading newline, no trailing
\* whitespace and no line that is the marker EOMsg
PlainMultiline(v) ==
    /\ v.type = "str"
    /\ Contains(v.s, <<NL>>)
    /\ v.s[1] # NL
    /\ v.s[Len(v.s)] \notin Whitespace
    /\ \A i \in 1..Len(Split(v.s, <<NL>>)) :
          Split(v.s, <<NL>>)[i] # docstring_marker

\* The here-document block KEY=$(cat << EOMsg ... EOMsg ) of an entry
HereDocument(item) ==
    item.k \o <<"=">> \o docstring_prefix \o item.v.s \o docstring_suffix

\* C11: a string value with a newline (no leading newline, no trailing
\* whitespace, no EOMsg line) is written as a here-document block and is read
\* back as exactly the same string, whatever entries precede or follow it.
C11_MultilineFidelity ==
    call.op = "load" =>
        \A i \in 1..Len(input) :
            PlainMultiline(input[i].v) =>
                /\ Contains(fs[call.saved.path], HereDocument(input[i]))
                /\ ~Raised(call.out)
                /\ input[i].k \in DOMAIN call.out.rtn
                /\ call.out.rtn[input[i].k] = input[i].v

\* C11 witness: the string '[a', newline, 'b]' was written as a here-document
\* block after another entry and came back as a list.
C11_Witness ==
    /\ call.op = "load"
    /\ Len(input) = 2
    /\ input[2].v = StrV(<<"[", "a", NL, "b", "]">>)
    /\ Contains(fs[call.saved.path], HereDocument(input[2]))
    /\ ~Raised(call.out)
    /\ call.out.rtn[input[2].k].type = "list"


(***************************************************************************)
(* parse_filename_iterators on a folder.  The folder /d holds any of the   *)
(* files of GroupNames; call.out is the outcome of the call.               *)
(***************************************************************************)
\* report.sh, report.000001.sh, report_Steve.sh, report_Steve.000001.sh,
\* report_1.0.sh, a, a.1, .DS_Store
GroupNames ==
    {<<"r", "e", "p", "o", "r", "t", ".", "s", "h">>,
     <<"r", "e", "p", "o", "r", "t", ".", "0", "0", "0", "0", "0", "1",
       ".", "s", "h">>,
     <<"r", "e", "p", "o", "r", "t", "_", "S", "t", "e", "v", "e", ".",
       "s", "h">>,
     <<"r", "e", "p", "o", "r", "t", "_", "S", "t", "e", "v", "e", ".",
       "0", "0", "0", "0", "0", "1", ".", "s", "h">>,
     <<"r", "e", "p", "o", "r", "t", "_", "1", ".", "0", ".", "s", "h">>,
     <<"a">>,
     <<"a", ".", "1">>,
     <<".", "D", "S", "_", "S", "t", "o", "r", "e">>}

\* The files of a folder with the given names, each of them empty
FolderOf(folder, names) ==
    [p \in {PathJoin(folder, n) : n \in names} |-> << >>]

InitGroup ==
    /\ fs \in {FolderOf(DirD, names) : names \in SUBSET GroupNames}
    /\ dirs = {Root, cwd, DirD}
    /\ call = NoCall
    /\ input = << >>
    /\ w = NoWriters

\* parse_filename_iterators('/d')
CallGroup ==
    /\ call.op = "none"
    /\ call' = [op |-> "parse_filename_iterators", folderpath |-> DirD,
                out |-> parse_filename_iterators(fs, dirs, DirD)]
    /\ UNCHANGED <<fs, dirs, input, w>>

NextGroup == CallGroup

SpecGroup == InitGroup /\ [][NextGroup]_vars

\* The positions of a list that hold a name
PositionsOf(name, list) == {i \in 1..Len(list) : list[i] = name}

\* C12: every iteration file belongs to exactly one base: it appears exactly
\* once in all_files.
C12_OneBasePerIteration ==
    call.op = "parse_filename_iterators" =>
        \A i \in 1..Len(call.out.iter_files) :
            Cardinality(PositionsOf(call.out.iter_files[i],
                                    call.out.all_files)) = 1

\* C12 witness: with report.sh, report_Steve.sh and report_Steve.000001.sh in
\* the folder, the iteration file is listed after both base files.
C12_Witness ==
    /\ call.op = "parse_filename_iterators"
    /\ DOMAIN fs
         = DOMAIN FolderOf(DirD, {PathName(ReportSteve), PathName(ReportSteve1),
                                  <<"r", "e", "p", "o", "r", "t", ".", "s", "h">>})
    /\ Cardinality(PositionsOf(PathName(ReportSteve1), call.out.all_files)) = 2

\* C17: every file of the folder, but for .DS_Store, appears at least once in
\* all_files, also an iteration file whose base file does not exist and a
\* file whose stem ends in a dot followed by digits.
C17_EveryFileListed ==
    call.op = "parse_filename_iterators" =>
        \A name \in Entries(fs, dirs, DirD) :
            PathStem(name) # DS_Store =>
                PositionsOf(name, call.out.all_files) # {}

\* C17 witness: report_1.0.sh is the only file of the folder and all_files is
\* empty.
C17_Witness ==
    /\ call.op = "parse_filename_iterators"
    /\ DOMAIN fs
         = DOMAIN FolderOf(DirD, {<<"r", "e", "p", "o", "r", "t", "_", "1", ".",
                                    "0", ".", "s", "h">>})
    /\ call.out.all_files = << >>


\* C13: each segment of parse_placeholders has len equal to the number of
\* characters of its text and end - start equal to len, the first segment
\* starts at 0 and each following segment starts where the one before it
\* ends: the ranges [start, end) do not overlap and cover the template.
C13_SegmentOffsets ==
    call.op = "parse_placeholders" =>
        LET segs == call.out.segments
        IN  /\ \A i \in 1..Len(segs) :
                  /\ segs[i].len = Len(segs[i].segment)
                  /\ segs[i].end - segs[i].start = segs[i].len
            /\ segs # << >> => segs[1].start = 0
            /\ \A i \in 1..(Len(segs) - 1) : segs[i + 1].start = segs[i].end

\* C13 witness: for file_{USER}_{DATE}.sh the static segment '_' after {USER}
\* starts at 10, inside the range [5, 11) of {USER}, and has len 2.
C13_Witness ==
    /\ call.op = "parse_placeholders"
    /\ call.value = ExampleTemplate
    /\ call.out.segments[2].end = 11
    /\ call.out.segments[3].segment = <<"_">>
    /\ call.out.segments[3].start = 10
    /\ call.out.segments[3].len = 2


(***************************************************************************)
(* Saves that collide, with a narrow iteration_zero_pad, and the grouping  *)
(* of the folder they fill.  input.pad is the pad width of the saves.      *)
(***************************************************************************)
\* The most files the colliding saves write
MaxSaves == 11

\* The iteration_zero_pad widths of the saves
PadWidths == {1, 2}

InitPad ==
    /\ fs = NoFiles
    /\ dirs = {Root, cwd, DirD}
    /\ call = NoCall
    /\ input \in {[pad |-> pad] : pad \in PadWidths}
    /\ w = NoWriters

\* save_dict_as_envfile('/d/report_{USER}.sh', save_dict, input.pad)
PadSave(save_dict) ==
    /\ Cardinality(DOMAIN fs) < MaxSaves
    /\ LET r == save_dict_as_envfile(fs, dirs, ReportTemplate, save_dict,
                                     input.pad)
       IN  /\ fs' = r.fs
           /\ dirs' = r.dirs
           /\ call' = [op |-> "save", out |-> r.out]
    /\ UNCHANGED <<input, w>>

\* parse_filename_iterators('/d')
PadGroup ==
    /\ call' = [op |-> "parse_filename_iterators",
                out |-> parse_filename_iterators(fs, dirs, DirD)]
    /\ UNCHANGED <<fs, dirs, input, w>>

PadSaveCall == \E save_dict \in {BobDict, SteveDict} : PadSave(save_dict)

NextPad == PadSaveCall \/ PadGroup

SpecPad == InitPad /\ [][NextPad]_vars

\* The iteration number a file name carries before its extension
IterNumber(name) ==
    LET fileary == Split(PathStem(name), <<".">>)
    IN  DigitsToNat(fileary[Len(fileary)])

\* Positions i < j of a list hold iteration files of one group: no base file
\* is listed from i to j
SameGroup(list, i, j) == \A k \in i..j : IsIterName(list[k])

\* C14: in all_files the iteration files listed after a base are in ascending
\* order of their iteration number, whatever the pad width and the number of
\* colliding saves.
C14_IterationOrder ==
    call.op = "parse_filename_iterators" =>
        \A i, j \in 1..Len(call.out.all_files) :
            (i < j /\ SameGroup(call.out.all_files, i, j)) =>
                IterNumber(call.out.all_files[i])
                    < IterNumber(call.out.all_files[j])

\* C14 witness: after eleven saves of report_Bob.sh with pad width 1,
\* report_Bob.10.sh is listed before report_Bob.2.sh and the last file listed
\* is report_Bob.9.sh.
C14_Witness ==
    /\ call.op = "parse_filename_iterators"
    /\ input.pad = 1
    /\ Len(call.out.all_files) = 11
    /\ call.out.all_files[3]
         = <<"r", "e", "p", "o", "r", "t", "_", "B", "o", "b", ".", "1", "0", ".",
             "s", "h">>
    /\ call.out.all_files[4]
         = <<"r", "e", "p", "o", "r", "t", "_", "B", "o", "b", ".", "2", ".",
             "s", "h">>
    /\ call.out.all_files[11]
         = <<"r", "e", "p", "o", "r", "t", "_", "B", "o", "b", ".", "9", ".",
             "s", "h">>


(***************************************************************************)
(* load_envfile_to_dict on an existing file, one turn of its loops at a    *)
(* time.  call holds the locals of the running call:                       *)
(*   lines : the lines the iterator of line 152 runs over                  *)
(*   i     : how many of them the iterator has yielded                     *)
(*   rtn   : the mapping built so far                                      *)
(*   name, multiline : the locals of the here-document scan                *)
(*   spin  : once the iterator is exhausted next(lines, '') yields '' for  *)
(*           ever and no line read later can depend on multiline, so the   *)
(*           model stops recording the '' appended to it and records the   *)
(*           parity of the turns of the while True loop instead            *)
(***************************************************************************)
\* The most rows of a file read, a here-document block counting as one
MaxRows == 3

\* k=1, j="x", a, k=$(cat << EOMsg, k="$(cat << EOMsg", and the block
\* save_dict_as_envfile writes for m = 'a\nb'
RowPool ==
    {<<"k", "=", "1">>,
     <<"j", "=", "\"", "x", "\"">>,
     <<"a">>,
     <<"k", "=", "$", "(", "c", "a", "t", " ", "<", "<", " ", "E", "O", "M", "s", "g">>,
     <<"k", "=", "\"", "$", "(", "c", "a", "t", " ", "<", "<", " ", "E", "O", "M",
       "s", "g", "\"">>,
     Content(<<[k |-> <<"m">>, v |-> StrV(<<"a", NL, "b">>)]>>)}

DecodeContents ==
    UNION {{Join(rows, <<NL>>) : rows \in [1..n -> RowPool]} : n \in 1..MaxRows}

InitDecode ==
    /\ fs \in {[p \in {CodecPath} |-> content] : content \in DecodeContents}
    /\ dirs = {Root, cwd, DirD}
    /\ call = NoCall
    /\ input = << >>
    /\ w = NoWriters

\* Lines 114-156: the path exists, the file is read and cut into lines
DecodeStart ==
    /\ call.op = "none"
    /\ call' = [op |-> "load", pc |-> "for",
                lines |-> Split(Replace(fs[CodecPath], docstring_suffix,
                                        <<NL>> \o END_SENTINEL), <<NL>>),
                i |-> 0, rtn |-> EmptyDict, name |-> << >>,
                multiline |-> << >>, spin |-> 0, out |-> NoCall]
    /\ UNCHANGED <<fs, dirs, input, w>>

\* Line 161
Unquoted(raw) ==
    IF SliceTo(raw, 1) = <<"\"">> /\ SliceFrom(raw, -1) = <<"\"">>
    THEN Slice(raw, 1, -1) ELSE raw

\* Lines 170-171 for a name and the text of its value: the call goes on with
\* the next line, or ends with the error infer_datatype raised
Stored(c, name, typed) ==
    IF Raised(typed) THEN [c EXCEPT !.pc = "done", !.out = typed]
    ELSE [c EXCEPT !.pc = "for", !.rtn = Put(@, name, typed)]

\* Lines 158-171 for one line the for loop took from the iterator
DecodeLine(c, line) ==
    IF StartsWith(Unquoted(SliceFrom(line, Find(line, <<"=">>, 0) + 1)),
                  Strip(docstring_prefix))
    THEN [c EXCEPT !.pc = "scan", !.multiline = << >>,
                   !.name = SliceTo(line, Find(line, <<"=">>, 0))]
    ELSE Stored(c, SliceTo(line, Find(line, <<"=">>, 0)),
                infer_datatype(Unquoted(SliceFrom(line,
                                                  Find(line, <<"=">>, 0) + 1))))

\* Line 157: the for loop takes the next line, handled by lines 158-171
DecodeFor ==
    /\ call.op = "load" /\ call.pc = "for"
    /\ call.i < Len(call.lines)
    /\ call' = DecodeLine([call EXCEPT !.i = @ + 1], call.lines[call.i + 1])
    /\ UNCHANGED <<fs, dirs, input, w>>

\* Lines 157, 172-173: the iterator is exhausted, the for loop ends and the
\* mapping is returned with the path read
DecodeReturn ==
    /\ call.op = "load" /\ call.pc = "for"
    /\ call.i = Len(call.lines)
    /\ call' = [call EXCEPT !.pc = "done",
                  !.out = [type |-> "ok", path |-> CodecPath,
                           rtn |-> Put(call.rtn, FilePathKey, StrV(CodecPath))]]
    /\ UNCHANGED <<fs, dirs, input, w>>

\* Lines 166-169 for one line the scan took: the sentinel ends the scan
ScanLine(c, mline) ==
    IF Contains(mline, END_SENTINEL)
    THEN Stored(c, c.name, infer_datatype(Join(c.multiline, <<NL>>)))
    ELSE [c EXCEPT !.multiline = Append(@, mline)]

\* Lines 165-168: one turn of while True, with next(lines, '')
DecodeScan ==
    /\ call.op = "load" /\ call.pc = "scan"
    /\ IF call.i < Len(call.lines)
       THEN call' = ScanLine([call EXCEPT !.i = @ + 1], call.lines[call.i + 1])
       ELSE call' = [call EXCEPT !.spin = 1 - @]
    /\ UNCHANGED <<fs, dirs, input, w>>

NextDecode == DecodeStart \/ DecodeFor \/ DecodeReturn \/ DecodeScan

\* The interpreter keeps running a call that has begun: a step of its loops
\* that can be taken is taken
SpecDecode ==
    /\ InitDecode /\ [][NextDecode]_vars
    /\ WF_vars(DecodeFor) /\ WF_vars(DecodeReturn) /\ WF_vars(DecodeScan)

\* C15: for every content of an existing file load_envfile_to_dict eventually
\* returns a mapping or raises, whether or not a value that begins with the
\* opening marker is followed by a closing marker.
C15_DecodeTerminates ==
    (call.op = "load") ~> (call.op = "load" /\ call.pc = "done")

\* C15 witness: the file save_dict_as_envfile writes for the single-line value
\* '$(cat << EOMsg' is being read, the iterator is exhausted, and the scan for
\* the sentinel is still turning.
C15_Witness ==
    /\ fs[CodecPath]
         = Content(<<[k |-> <<"k">>, v |-> StrV(Strip(docstring_prefix))]>>)
    /\ call.op = "load"
    /\ call.pc = "scan"
    /\ call.i = Len(call.lines)
    /\ call.spin = 1


(***************************************************************************)
(* A mapping whose keys have characters the sanitization of line 78        *)
(* removes, written and read back with the steps of SpecCodec.             *)
(***************************************************************************)
\* 'a b', 'ab', 'a_b', 'k'
KeyNames == {<<"a", " ", "b">>, <<"a", "b">>, <<"a", "_", "b">>, <<"k">>}

KeyValues == {IntV(1), IntV(2), StrV(<<"x">>)}

\* The mappings of up to MaxEntries entries with distinct keys
KeyMappings ==
    UNION {{[i \in 1..n |-> [k |-> ks[i], v |-> vals[i]]] :
              ks \in {f \in [1..n -> KeyNames] :
                        \A i, j \in 1..n : i # j => f[i] # f[j]},
              vals \in [1..n -> KeyValues]} : n \in 1..MaxEntries}

InitKeys ==
    /\ fs = NoFiles
    /\ dirs = {Root, cwd, DirD}
    /\ call = NoCall
    /\ input \in KeyMappings
    /\ w = NoWriters

SpecKeys == InitKeys /\ [][NextCodec]_vars

\* The key name of a row of a file
RowName(row) == SliceTo(row, Find(row, <<"=">>, 0))

\* C16: a file written for a mapping with distinct keys has at most one row
\* per key name, and every entry of the mapping is recovered from the file.
C16_UniqueKeys ==
    (call.op \in {"save", "load"} /\ ~Raised(call.saved)) =>
        LET rows == Split(fs[call.saved.path], <<NL>>)
        IN  /\ \A i, j \in 1..Len(rows) :
                  i # j => RowName(rows[i]) # RowName(rows[j])
            /\ call.op = "load" =>
                  /\ ~Raised(call.out)
                  /\ Cardinality(DOMAIN call.out.rtn \ {FilePathKey})
                       = Len(input)

\* C16 witness: the keys 'a b' and 'ab' were written as two rows named ab, and
\* the load returned one entry, the value of the second.
C16_Witness ==
    /\ call.op = "load"
    /\ input = <<[k |-> <<"a", " ", "b">>, v |-> IntV(1)],
                 [k |-> <<"a", "b">>, v |-> IntV(2)]>>
    /\ fs[call.saved.path] = <<"a", "b", "=", "1", NL, "a", "b", "=", "2">>
    /\ DOMAIN call.out.rtn = {<<"a", "b">>, FilePathKey}
    /\ call.out.rtn[<<"a", "b">>] = IntV(2)


(***************************************************************************)
(* Saves to one placeholder template in an empty folder, and loads of the  *)
(* template.  input is the list of the paths the saves returned, in the    *)
(* order of the calls.                                                     *)
(***************************************************************************)
\* The most saves made
MaxCalls == 5

InitLatest ==
    /\ fs = NoFiles
    /\ dirs = {Root, cwd, DirD}
    /\ call = NoCall
    /\ input = << >>
    /\ w = NoWriters

\* save_dict_as_envfile('/d/report_{USER}.sh', save_dict)
LatestSave(save_dict) ==
    /\ Len(input) < MaxCalls
    /\ LET r == save_dict_as_envfile(fs, dirs, ReportTemplate, save_dict,
                                     iteration_zero_pad)
       IN  /\ fs' = r.fs
           /\ dirs' = r.dirs
           /\ call' = [op |-> "save", out |-> r.out]
           /\ input' = IF Raised(r.out) THEN input
                       ELSE Append(input, r.out.path)
    /\ UNCHANGED w

\* load_envfile_to_dict('/d/report_{USER}.sh', return_sorted)
LatestLoad(return_sorted) ==
    /\ input # << >>
    /\ call' = [op |-> "load", return_sorted |-> return_sorted,
                out |-> load_envfile_to_dict(fs, dirs, ReportTemplate,
                                             return_sorted, FALSE)]
    /\ UNCHANGED <<fs, dirs, input, w>>

LatestSaveCall == \E save_dict \in {BobDict, SteveDict} : LatestSave(save_dict)

LatestLoadCall ==
    \E return_sorted \in {Latest, Earliest} : LatestLoad(return_sorted)

NextLatest == LatestSaveCall \/ LatestLoadCall

SpecLatest == InitLatest /\ [][NextLatest]_vars

\* C18: after any sequence of successful saves to one placeholder template in
\* an initially empty folder, a 'latest' load of the template reads the file
\* the most recent save returned and an 'earliest' load reads the file the
\* first save returned.
C18_LatestIsMostRecent ==
    call.op = "load" =>
        /\ call.out.type = "ok"
        /\ call.return_sorted = Latest => call.out.path = input[Len(input)]
        /\ call.return_sorted = Earliest => call.out.path = input[1]

\* C18 witness: report_Steve.sh was saved first and report_Bob.sh after it,
\* and the 'latest' load read report_Steve.sh.
C18_Witness ==
    /\ call.op = "load"
    /\ input = <<ReportSteve, ReportBob>>
    /\ call.return_sorted = Latest
    /\ call.out.type = "ok"
    /\ call.out.path = ReportSteve

=============================================================================
